---- MODULE Spec2Model ----
(***************************************************************************)
(* Model of quadjax's sampling-based MPPI controller                       *)
(* (quadjax/controllers/mppi.py, MPPIController2D) together with the parts *)
(* of the Quad2D environment it rolls out against.                         *)
(*                                                                         *)
(* Floating-point numbers are modelled as fixed-point integers: the real   *)
(* value x is the integer x * SCALE, products and quotients round down.    *)
(* NaN is a distinguished value that every arithmetic operator propagates  *)
(* and every comparison answers FALSE on, as IEEE-754 does.                *)
(***************************************************************************)
EXTENDS Integers, Sequences, FiniteSets, TLC

(* ------------------------------------------------------------------ *)
(* Bounds of the model                                                  *)
(* ------------------------------------------------------------------ *)

\* fixed-point resolution: the integer SCALE stands for the real 1.0
SCALE == 1000

\* largest sample count N a controller is constructed with
MaxN == 4

\* largest horizon H a controller is constructed with
MaxH == 3

\* number of control ticks the caller runs in one behaviour
MaxTicks == 2

(* ------------------------------------------------------------------ *)
(* Fixed-point arithmetic with NaN                                      *)
(* ------------------------------------------------------------------ *)

NaN == -(2 ^ 30)

IsNaN(x) == x = NaN

Half == SCALE \div 2

FNeg(a) == IF IsNaN(a) THEN NaN ELSE 0 - a

FAdd(a, b) == IF IsNaN(a) \/ IsNaN(b) THEN NaN ELSE a + b

FSub(a, b) == IF IsNaN(a) \/ IsNaN(b) THEN NaN ELSE a - b

FMul(a, b) == IF IsNaN(a) \/ IsNaN(b) THEN NaN ELSE (a * b) \div SCALE

\* 0/0 is NaN; x/0 for x # 0 is an infinity, which no run of the model
\* produces (every divisor the controller uses is >= 1.0 or NaN)
FDiv(a, b) == IF IsNaN(a) \/ IsNaN(b) \/ b = 0 THEN NaN ELSE (a * SCALE) \div b

FAbs(a) == IF IsNaN(a) THEN NaN ELSE IF a < 0 THEN 0 - a ELSE a

\* comparisons with NaN are false
FGt(a, b) == ~IsNaN(a) /\ ~IsNaN(b) /\ a > b

FGe(a, b) == ~IsNaN(a) /\ ~IsNaN(b) /\ a >= b

\* an array given by a formula for its elements, as a finished value:
\* every element is computed once
AsArray(f) == SubSeq(f, 1, Len(f))

RECURSIVE FSum(_)
\* jnp.sum over a sequence of numbers
FSum(s) == IF s = <<>> THEN 0 ELSE FAdd(Head(s), FSum(Tail(s)))

RECURSIVE FMin(_)
\* jnp.min over a non-empty sequence: NaN if any element is NaN
FMin(s) ==
    IF Len(s) = 1 THEN Head(s)
    ELSE LET r == FMin(Tail(s))
         IN  IF IsNaN(Head(s)) \/ IsNaN(r) THEN NaN
             ELSE IF Head(s) < r THEN Head(s) ELSE r

RECURSIVE FPow(_, _)
\* jnp.power(base, k) for a natural exponent k
FPow(base, k) == IF k = 0 THEN SCALE ELSE FMul(base, FPow(base, k - 1))

RECURSIVE IsqrtIn(_, _, _)
\* the largest r in lo..hi with r*r <= n (lo*lo <= n assumed)
IsqrtIn(n, lo, hi) ==
    IF lo >= hi THEN lo
    ELSE LET mid == (lo + hi + 1) \div 2
         IN  IF mid * mid <= n THEN IsqrtIn(n, mid, hi) ELSE IsqrtIn(n, lo, mid - 1)

\* square root of a fixed-point number, rounded down; NaN below zero
FSqrt(a) ==
    IF IsNaN(a) \/ a < 0 THEN NaN
    ELSE IsqrtIn(a * SCALE, 0, 40000)

\* e^r for -1 <= r <= 0 by its Taylor polynomial of degree 5
ExpFrac(r) ==
    LET r2 == FMul(r, r)
        r3 == FMul(r2, r)
        r4 == FMul(r3, r)
        r5 == FMul(r4, r)
    IN  SCALE + r + (r2 \div 2) + (r3 \div 6) + (r4 \div 24) + (r5 \div 120)

RECURSIVE ExpNeg(_)
\* e^(-d) for d >= 0: range reduction by whole units, underflows to 0
ExpNeg(d) ==
    IF d <= SCALE THEN ExpFrac(0 - d)
    ELSE FMul(ExpFrac(0 - SCALE), ExpNeg(d - SCALE))

\* jnp.exp: exp(0) = 1 exactly, exp(NaN) = NaN
FExp(x) ==
    IF IsNaN(x) THEN NaN
    ELSE IF x <= 0 THEN ExpNeg(0 - x)
    ELSE (SCALE * SCALE) \div ExpNeg(x)

(* ------------------------------------------------------------------ *)
(* Random keys (jax.random)                                             *)
(* ------------------------------------------------------------------ *)

\* A key is the path by which it was derived from a seed.
\* jax.random.split(key, n): n child keys, a fixed function of key and n
Split(key, n) == [i \in 1..n |-> key \o <<n, i - 1>>]

RECURSIVE KeyHash(_)
KeyHash(key) ==
    IF key = <<>> THEN 0
    ELSE (7 * KeyHash(SubSeq(key, 1, Len(key) - 1)) + key[Len(key)] + 1) % 25

\* the standard-normal vector a key yields: a fixed function of the key,
\* components in {-2.0, -1.0, 0.0, 1.0, 2.0}
Normal(key) ==
    LET k == KeyHash(key)
    IN  <<((k % 5) - 2) * SCALE, ((k \div 5) - 2) * SCALE>>

(* ------------------------------------------------------------------ *)
(* Sampler                                                              *)
(* ------------------------------------------------------------------ *)

\* dimension of an action: (thrust, roll rate)
ADim == 2

\* a pivot of the factorisation is usable when it is a positive number
Pivot(x) == ~IsNaN(x) /\ x > 0

\* The factor of a covariance.  multivariate_normal is called with its
\* default method, the Cholesky factorisation cov = L L^T (L lower
\* triangular, computed from the lower triangle of cov).  It exists for a
\* positive definite matrix only: on a pivot that is zero, negative or NaN
\* the factorisation fails and the factor is all NaN.
Factor(cov) ==
    LET failed == <<<<NaN, NaN>>, <<NaN, NaN>>>>
        l11 == FSqrt(cov[1][1])
        l21 == FDiv(cov[2][1], l11)
        p2  == FSub(cov[2][2], FMul(l21, l21))
    IN  IF ~Pivot(cov[1][1]) THEN failed
        ELSE IF ~Pivot(p2) THEN failed
        ELSE <<<<l11, 0>>, <<l21, FSqrt(p2)>>>>

\* jax.random.multivariate_normal(key, mean, cov) = mean + L z
\* (an einsum over the whole factor: a NaN anywhere in L reaches the sum)
MultivariateNormal(key, mean, cov) ==
    LET L == Factor(cov)
        z == Normal(key)
    IN  <<FAdd(mean[1], FAdd(FMul(L[1][1], z[1]), FMul(L[1][2], z[2]))),
          FAdd(mean[2], FAdd(FMul(L[2][1], z[1]), FMul(L[2][2], z[2])))>>

\* the key single_sample hands to the draw of horizon step h: the lambda
\* closes over the sample's key, whatever the horizon step
DrawKey(key, h) == key

\* single_sample: one action sequence, one draw per horizon step
SingleSample(key, traj_mean, traj_cov) ==
    [h \in 1..Len(traj_mean) |->
        MultivariateNormal(DrawKey(key, h), traj_mean[h], traj_cov[h])]

\* jnp.clip(x, lo, hi) = minimum(maximum(x, lo), hi); NaN stays NaN
Clip(x, lo, hi) ==
    IF IsNaN(x) THEN NaN ELSE IF x < lo THEN lo ELSE IF x > hi THEN hi ELSE x

\* the batch before clipping: sample i is drawn with act_keys[i]
RawSamples(act_keys, a_mean, a_cov) ==
    [i \in 1..Len(act_keys) |-> SingleSample(act_keys[i], a_mean, a_cov)]

\* a_sampled = jnp.clip(a_sampled, -1.0, 1.0), shape (N, H, ADim)
ClipBatch(raw) ==
    [i \in 1..Len(raw) |->
        [h \in 1..Len(raw[i]) |->
            [d \in 1..ADim |-> Clip(raw[i][h][d], 0 - SCALE, SCALE)]]]

\* a shift that wraps the dropped step around to the end
ShiftRotate(x) ==
    IF Len(x) = 0 THEN <<>>
    ELSE SubSeq(x, 2, Len(x)) \o SubSeq(x, 1, 1)

\* the shift operator: drop step 0, repeat the last step
\* jnp.concatenate([x[1:], x[-1:]])
Shift(x) ==
    IF Len(x) = 0 THEN <<>>
    ELSE SubSeq(x, 2, Len(x)) \o SubSeq(x, Len(x), Len(x))

(* ------------------------------------------------------------------ *)
(* Environment (Quad2D)                                                 *)
(* ------------------------------------------------------------------ *)

\* is_terminal compares |pos| with 3.0
PosLimit == 3

\* EnvParams2D.max_steps_in_episode
MaxStepsInEpisode == 300

\* a position component beyond which the integration of a failing
\* environment breaks down and yields NaN (in units of SCALE / 4)
BlowQuarters == 3

\* tracking reward: minus the squared distance of the vehicle from its target
reward_fn(state) ==
    LET e1 == FSub(state.pos[1], state.pos_tar[1])
        e2 == FSub(state.pos[2], state.pos_tar[2])
    IN  FNeg(FAdd(FMul(e1, e1), FMul(e2, e2)))

\* is_terminal: (time >= max_steps_in_episode) | (|pos| > 3.0).any()
is_terminal(state, params) ==
    \/ state.time >= params.max_steps_in_episode
    \/ \E d \in 1..ADim : FGt(FAbs(state.pos[d]), PosLimit * SCALE)

\* the dynamics: the action displaces the vehicle, time advances by one.
\* An environment with params.fails set loses the state to NaN when a
\* component leaves its validity region.
step_fn(params, state, action) ==
    LET moved == [d \in 1..ADim |-> FAdd(state.pos[d], action[d])]
        broken == params.fails /\
                  \E d \in 1..ADim :
                      IsNaN(moved[d]) \/ 4 * FAbs(moved[d]) > BlowQuarters * SCALE
    IN  [state EXCEPT !.pos = IF broken THEN [d \in 1..ADim |-> NaN] ELSE moved,
                      !.time = state.time + 1]

\* step_env_wocontroller(key, state, action, params): reward and done are
\* those of the state the step starts from
EnvStep(key, state, action, params) ==
    [state  |-> step_fn(params, state, action),
     reward |-> reward_fn(state),
     done   |-> is_terminal(state, params)]

(* ------------------------------------------------------------------ *)
(* Rollout, cost and update (MPPIController2D.__call__)                 *)
(* ------------------------------------------------------------------ *)

\* a done sample's reward set to zero instead of held
ZeroReward(done_before, reward_before, reward) ==
    IF done_before THEN 0 ELSE reward

\* the reward a sample reports at a step: frozen once it is done
HoldReward(done_before, reward_before, reward) ==
    IF done_before THEN reward_before ELSE reward

\* the done flag carried to the next step
CarryDone(done, done_before) == done \/ done_before

\* rollout_fn(carry, action): one step of the scan over the horizon, the
\* environment step mapped over the N samples.  action is the (N, ADim)
\* slice of the batch at this horizon step.
RolloutFn(key, c, action) ==
    LET n == Len(c.state)
        r == AsArray([i \in 1..n |-> EnvStep(key, c.state[i], action[i], c.params[i])])
        reward == AsArray([i \in 1..n |-> HoldReward(c.done[i], c.reward[i], r[i].reward)])
    IN  [carry |-> [state  |-> [i \in 1..n |-> r[i].state],
                    params |-> c.params,
                    reward |-> reward,
                    done   |-> [i \in 1..n |-> CarryDone(r[i].done, c.done[i])]],
         reward |-> reward,
         pos    |-> [i \in 1..n |-> r[i].state.pos],
         env    |-> [i \in 1..n |-> [reward |-> r[i].reward, done |-> r[i].done]]]

\* the initial carry: state and parameters repeated N times, no sample
\* done, reward 0.0
InitCarry(state, params, n) ==
    [state  |-> [i \in 1..n |-> state],
     params |-> [i \in 1..n |-> params],
     reward |-> [i \in 1..n |-> 0],
     done   |-> [i \in 1..n |-> FALSE]]

\* discounted reward sum over the horizon; rewards[h][i] is (H, N)
DiscountedRewards(rewards_hn, discount, n) ==
    AsArray([i \in 1..n |->
        FSum([h \in 1..Len(rewards_hn) |->
                 FMul(rewards_hn[h][i], FPow(discount, h - 1))])])

Cost(discounted) == AsArray([i \in 1..Len(discounted) |-> FNeg(discounted[i])])

\* cost_exp = exp(-(cost - min(cost)) / lam)
CostExp(cost, lam) ==
    LET m == FMin(cost)
    IN  AsArray([i \in 1..Len(cost) |-> FExp(FDiv(FNeg(FSub(cost[i], m)), lam))])

\* weights left unnormalised
WeightUnnormalised(cost, lam) == CostExp(cost, lam)

\* weight = cost_exp / sum(cost_exp)
Weight(cost, lam) ==
    LET ce == CostExp(cost, lam)
        total == FSum(ce)
    IN  AsArray([i \in 1..Len(cost) |-> FDiv(ce[i], total)])

\* sum_i weight_i * sample_i[h][d]
WeightedSum(weight, a_sampled, h, d) ==
    FSum([i \in 1..Len(weight) |-> FMul(weight[i], a_sampled[i][h][d])])

\* the mean replaced by the batch mean instead of blended with it
UpdateMeanReplace(weight, a_sampled, cp) ==
    [h \in 1..Len(cp.a_mean) |->
        [d \in 1..ADim |-> WeightedSum(weight, a_sampled, h, d)]]

\* a_mean = sum(weight * a_sampled) * gamma_mean + a_mean * (1 - gamma_mean)
UpdateMean(weight, a_sampled, cp) ==
    AsArray([h \in 1..Len(cp.a_mean) |->
        AsArray([d \in 1..ADim |->
            FAdd(FMul(WeightedSum(weight, a_sampled, h, d), cp.gamma_mean),
                 FMul(cp.a_mean[h][d], FSub(SCALE, cp.gamma_mean)))])])

\* the point the batch covariance is centred on: by the time the
\* covariance is computed, a_mean names the blended mean of UpdateMean
CovCentre(weight, a_sampled, cp) == UpdateMean(weight, a_sampled, cp)

\* a_cov = sum(weight * (a_sampled - a_mean)(a_sampled - a_mean)^T)
\*           * gamma_sigma + a_cov * (1 - gamma_sigma)
UpdateCov(weight, a_sampled, cp) ==
    LET c == CovCentre(weight, a_sampled, cp)
    IN  [h \in 1..Len(cp.a_cov) |->
            [d \in 1..ADim |->
                [e \in 1..ADim |->
                    FAdd(FMul(FSum([i \in 1..Len(weight) |->
                                       FMul(weight[i],
                                            FMul(FSub(a_sampled[i][h][d], c[h][d]),
                                                 FSub(a_sampled[i][h][e], c[h][e])))]),
                              cp.gamma_sigma),
                         FMul(cp.a_cov[h][d][e], FSub(SCALE, cp.gamma_sigma)))]]]

\* diagnostics: mean and standard deviation of the positions over the batch
PosMean(poses, n) ==
    [h \in 1..Len(poses) |->
        [d \in 1..ADim |-> FDiv(FSum([i \in 1..n |-> poses[h][i][d]]), n * SCALE)]]

PosStd(poses, n) ==
    LET m == PosMean(poses, n)
    IN  [h \in 1..Len(poses) |->
            [d \in 1..ADim |->
                FSqrt(FDiv(FSum([i \in 1..n |->
                                    FMul(FSub(poses[h][i][d], m[h][d]),
                                         FSub(poses[h][i][d], m[h][d]))]),
                           n * SCALE))]]

\* what a tick returns (lines 79-104), from the rewards of the rollout
TickResult(rewards_hn, poses_hn, samples, params, n, lam) ==
    LET cost == Cost(DiscountedRewards(rewards_hn, params.discount, n))
        weight == Weight(cost, lam)
        new_cp == [params EXCEPT !.a_mean = UpdateMean(weight, samples, params),
                                 !.a_cov = UpdateCov(weight, samples, params)]
    IN  [u |-> new_cp.a_mean[1],
         control_params |-> new_cp,
         info |-> [pos_mean |-> PosMean(poses_hn, n), pos_std |-> PosStd(poses_hn, n)],
         cost |-> cost,
         weight |-> weight]

(* ------------------------------------------------------------------ *)
(* Inputs                                                               *)
(* ------------------------------------------------------------------ *)

Quarter == SCALE \div 4

\* mean sequences of length len; they differ from step to step
MeanSeqs(len) ==
    { [h \in 1..len |-> <<b[1] - (h - 1) * 3 * Half, b[2] + (h - 1) * Quarter>>] :
        b \in { <<0, 0>>, <<Half, 0>>, <<2 * SCALE, 0>> } }

\* covariance sequences of length len, symmetric positive semi-definite
CovSeqs(len) ==
    { [h \in 1..len |-> IF h = 1 THEN c ELSE <<<<Quarter, 0>>, <<0, h * Quarter>>>>] :
        c \in { <<<<0, 0>>, <<0, 0>>>>,
                <<<<SCALE, Half>>, <<Half, SCALE>>>> } }

\* the MPPIParams a controller is started with
Params(len) ==
    { [gamma_mean |-> g[1], gamma_sigma |-> g[2], discount |-> g[3],
       sample_sigma |-> Half, a_mean |-> m, a_cov |-> c] :
        g \in { <<Half, Half, SCALE>>, <<SCALE, Quarter, (9 * SCALE) \div 10>> },
        m \in MeanSeqs(len), c \in CovSeqs(len) }

\* the temperatures a controller is constructed with
Lams == { 2 * SCALE }

\* jax.random.PRNGKey(seed) for the seeds of the model
RngKeys == { <<0>>, <<1>> }

\* the vehicle states an episode starts in
States ==
    { [pos |-> p, pos_tar |-> <<0, 0>>, time |-> t] :
        p \in { <<0, 0>>, <<(5 * SCALE) \div 2, 0>> }, t \in {0} }
      \cup { [pos |-> <<0, 0>>, pos_tar |-> <<0, 0>>, time |-> MaxStepsInEpisode - 1] }

(* ------------------------------------------------------------------ *)
(* State                                                                *)
(* ------------------------------------------------------------------ *)

VARIABLES
    pc,         \* "new", "ready", "rollout", "returned", "tick_error"
    env,        \* the environment the controller is built on
    ctrl,       \* the controller's fields N, H, lam
    dist,       \* the MPPIParams the caller holds between ticks
    rng,        \* the caller's random key
    env_state,  \* the vehicle state the caller holds
    ticks,      \* number of ticks the caller has started
    inp,        \* the arguments of the tick in progress
    cp,         \* control_params after the shift
    a_sampled,  \* the clipped batch, (N, H, ADim)
    draw_key,   \* draw_key[i][h]: the key of the draw of sample i, step h
    step_key,   \* the key handed to the environment steps
    carry,      \* the carry of the scan
    hstep,      \* number of horizon steps scanned
    rewards,    \* the scan's reward output, (hstep, N)
    poses,      \* the scan's position output, (hstep, N, ADim)
    envlog,     \* what the environment returned at each step, (hstep, N)
    donelog,    \* the carried done flags after each step, (hstep, N)
    out,        \* what the tick returned
    last,       \* the previous completed tick: its arguments and result
    dyn         \* a loose-rope dynamics state and the operation last applied

mppi_vars == <<pc, env, ctrl, dist, rng, env_state, ticks, inp, cp, a_sampled, draw_key,
               step_key, carry, hstep, rewards, poses, envlog, donelog, out, last>>

vars == <<mppi_vars, dyn>>

locals == <<cp, a_sampled, draw_key, step_key, carry, hstep, rewards, poses,
            envlog, donelog>>

None == [none |-> TRUE]

\* the keys of one tick: rng_act is split once (the second half, act_key,
\* is not used), the first half is split into the N sample keys and, again,
\* into the key of the environment steps
TickRng(rng_act) == Split(rng_act, 2)[1]

\* sample keys drawn from a stream that advances from tick to tick
ActKeysOfStream(rng_act, n) == Split(TickRng(rng_act \o <<ticks>>), n)

ActKeys(rng_act, n) == Split(TickRng(rng_act), n)

StepKey(rng_act) == Split(TickRng(rng_act), 2)[2]

EnvParams == [max_steps_in_episode |-> MaxStepsInEpisode, fails |-> env.fails]

InitRest ==
    /\ pc = "new"
    /\ ctrl = None
    /\ dist = None
    /\ rng = <<>>
    /\ env_state = None
    /\ ticks = 0
    /\ inp = None
    /\ cp = None
    /\ a_sampled = <<>>
    /\ draw_key = <<>>
    /\ step_key = <<>>
    /\ carry = None
    /\ hstep = 0
    /\ rewards = <<>>
    /\ poses = <<>>
    /\ envlog = <<>>
    /\ donelog = <<>>
    /\ out = None
    /\ last = None

\* the Quad2D environment: its rewards are finite
Init == env = [fails |-> FALSE] /\ InitRest /\ dyn = None

\* an environment whose dynamics may fail numerically
InitNaN == env = [fails |-> TRUE] /\ InitRest /\ dyn = None

(* ------------------------------------------------------------------ *)
(* Operations                                                           *)
(* ------------------------------------------------------------------ *)

\* MPPIController2D.__init__: stores N, H and lam as given.  The caller
\* seeds its key and resets the environment before its loop.
Construct(n, hor, lam, params, seed, state) ==
    /\ pc = "new"
    /\ ctrl' = [N |-> n, H |-> hor, lam |-> lam]
    /\ dist' = params
    /\ rng' = seed
    /\ env_state' = state
    /\ pc' = "ready"
    /\ UNCHANGED <<env, ticks, inp, locals, out, last>>
    /\ UNCHANGED dyn

\* rng, rng_act, rng_step = jax.random.split(rng, 3)
CallerKeys(key) == Split(key, 3)

\* the configurations with which tracing the tick raises: a negative
\* sample count (split), a horizon that is not the length of the
\* distribution (scan), an empty batch (min), an empty mean (a_mean[0])
TickFails(c, params) ==
    \/ c.N < 1
    \/ c.H < 1
    \/ Len(params.a_mean) # c.H
    \/ Len(params.a_cov) # Len(params.a_mean)

\* __call__, lines 37-76: shift, sample, clip, and the initial carry
Call ==
    /\ pc = "ready"
    /\ inp' = [state |-> env_state, env_params |-> EnvParams,
               rng_act |-> CallerKeys(rng)[2], control_params |-> dist]
    /\ IF TickFails(ctrl, dist)
       THEN /\ pc' = "tick_error"
            /\ UNCHANGED locals
       ELSE LET shifted == [dist EXCEPT !.a_mean = Shift(dist.a_mean),
                                        !.a_cov = Shift(dist.a_cov)]
                rng_act == CallerKeys(rng)[2]
                act_keys == ActKeys(rng_act, ctrl.N)
            IN  /\ cp' = shifted
                /\ a_sampled' = ClipBatch(RawSamples(act_keys, shifted.a_mean, shifted.a_cov))
                /\ draw_key' = [i \in 1..ctrl.N |->
                                   [h \in 1..ctrl.H |-> DrawKey(act_keys[i], h)]]
                /\ step_key' = StepKey(rng_act)
                /\ carry' = InitCarry(env_state, EnvParams, ctrl.N)
                /\ hstep' = 0
                /\ rewards' = <<>>
                /\ poses' = <<>>
                /\ envlog' = <<>>
                /\ donelog' = <<>>
                /\ pc' = "rollout"
    /\ UNCHANGED <<env, ctrl, dist, rng, env_state, ticks, out, last>>
    /\ UNCHANGED dyn

\* one iteration of lax.scan(rollout_fn, ..., length=H), line 78
RolloutStep ==
    /\ pc = "rollout"
    /\ hstep < ctrl.H
    /\ LET r == RolloutFn(step_key, carry,
                          [i \in 1..ctrl.N |-> a_sampled[i][hstep + 1]])
       IN  /\ carry' = r.carry
           /\ rewards' = Append(rewards, r.reward)
           /\ poses' = Append(poses, r.pos)
           /\ envlog' = Append(envlog, r.env)
           /\ donelog' = Append(donelog, r.carry.done)
    /\ hstep' = hstep + 1
    /\ UNCHANGED <<pc, env, ctrl, dist, rng, env_state, ticks, inp, cp, a_sampled, draw_key,
                   step_key, out, last>>
    /\ UNCHANGED dyn

\* __call__, lines 79-104: cost, weights, update, the action returned
Finish ==
    /\ pc = "rollout"
    /\ hstep = ctrl.H
    /\ out' = TickResult(rewards, poses, a_sampled, cp, ctrl.N, ctrl.lam)
    /\ pc' = "returned"
    /\ UNCHANGED <<env, ctrl, dist, rng, env_state, ticks, inp, locals, last>>
    /\ UNCHANGED dyn

\* the caller's loop: it steps the environment with the action returned
\* and keeps the updated distribution for the next tick
NextTick ==
    /\ pc = "returned"
    /\ ticks + 1 < MaxTicks
    /\ dist' = out.control_params
    /\ rng' = CallerKeys(rng)[1]
    /\ env_state' = EnvStep(CallerKeys(rng)[3], env_state, out.u, EnvParams).state
    /\ last' = [inp |-> inp, out |-> out]
    /\ ticks' = ticks + 1
    /\ pc' = "ready"
    /\ UNCHANGED <<env, ctrl, inp, locals, out>>
    /\ UNCHANGED dyn

\* the caller runs the tick again on the distribution it ran it on
Replay ==
    /\ pc = "returned"
    /\ ticks + 1 < MaxTicks
    /\ dist' = inp.control_params
    /\ last' = [inp |-> inp, out |-> out]
    /\ ticks' = ticks + 1
    /\ pc' = "ready"
    /\ UNCHANGED <<env, ctrl, rng, env_state, inp, locals, out>>
    /\ UNCHANGED dyn

Next ==
    \/ /\ pc = "new"
       /\ \E n \in -1..MaxN, hor \in -1..MaxH, lam \in Lams :
             \E len \in 0..MaxH : \E params \in Params(len) :
                 \E seed \in RngKeys, state \in States :
                     Construct(n, hor, lam, params, seed, state)
    \/ Call
    \/ RolloutStep
    \/ Finish
    \/ NextTick
    \/ Replay

Spec == Init /\ [][Next]_vars

SpecNaN == InitNaN /\ [][Next]_vars

(* ------------------------------------------------------------------ *)
(* Loose-rope dynamics                                                  *)
(* ------------------------------------------------------------------ *)

\* number of dynamics operations applied to one state
MaxDynSteps == 2

\* jnp.pi, as 355/113
PI == (355 * SCALE) \div 113

\* ((x + pi) % (2 pi)) - pi, the result in [-pi, pi)
angle_normalize(x) ==
    IF IsNaN(x) THEN NaN ELSE ((x + PI) % (2 * PI)) - PI

\* sine on [-pi/2, pi/2] by its series up to x^7
SinSeries(x) ==
    LET x2 == FMul(x, x)
        x3 == FMul(x2, x)
        x5 == FMul(x3, x2)
        x7 == FMul(x5, x2)
    IN  x - (x3 \div 6) + (x5 \div 120) - (x7 \div 5040)

\* jnp.sin: the angle is reduced to [-pi, pi), then folded to [-pi/2, pi/2]
Sin(x) ==
    IF IsNaN(x) THEN NaN
    ELSE LET r == angle_normalize(x)
             f == IF 2 * r > PI THEN PI - r
                  ELSE IF 2 * r < 0 - PI THEN 0 - PI - r
                  ELSE r
         IN  SinSeries(f)

\* jnp.cos(x) = sin(x + pi/2)
Cos(x) == IF IsNaN(x) THEN NaN ELSE Sin(x + (PI \div 2))

\* arctangent of a ratio t in [0, 1]: t pi/4 + 0.273 t (1 - t),
\* within 0.004 rad of the true value
AtanUnit(t) == FMul(t, PI \div 4) + FMul((273 * SCALE) \div 1000, FMul(t, SCALE - t))

\* jnp.arctan2(y, x), in (-pi, pi]; arctan2(0, 0) = 0
Arctan2(y, x) ==
    IF IsNaN(y) \/ IsNaN(x) THEN NaN
    ELSE IF x = 0 /\ y = 0 THEN 0
    ELSE LET ay == FAbs(y)
             ax == FAbs(x)
             a  == IF ax >= ay THEN AtanUnit(FDiv(ay, ax))
                   ELSE (PI \div 2) - AtanUnit(FDiv(ax, ay))
             q  == IF x < 0 THEN PI - a ELSE a
         IN  IF y < 0 THEN 0 - q ELSE q

\* traj[index] of a jax array: an index past the end reads the last entry
TrajAt(traj, index) ==
    IF index + 1 > Len(traj) THEN traj[Len(traj)] ELSE traj[index + 1]

\* loose_dynamics(env_params, state, env_action, key, sim_dt), planar
loose_dynamics(env_params, state, env_action, sim_dt) ==
    LET y_ddot == FDiv(FMul(FNeg(env_action.thrust), Sin(state.theta)), env_params.m)
        z_ddot == FSub(FDiv(FMul(env_action.thrust, Cos(state.theta)), env_params.m),
                       env_params.g)
        theta_ddot == FDiv(env_action.tau, env_params.I)
        new_y_dot == FAdd(state.y_dot, FMul(sim_dt, y_ddot))
        new_z_dot == FAdd(state.z_dot, FMul(sim_dt, z_ddot))
        new_theta_dot == FAdd(state.theta_dot, FMul(sim_dt, theta_ddot))
        new_y == FAdd(state.y, FMul(sim_dt, new_y_dot))
        new_z == FAdd(state.z, FMul(sim_dt, new_z_dot))
        new_theta == angle_normalize(FAdd(state.theta, FMul(sim_dt, new_theta_dot)))
        delta_y_hook == FSub(FMul(env_params.delta_yh, Cos(new_theta)),
                             FMul(env_params.delta_zh, Sin(new_theta)))
        delta_z_hook == FAdd(FMul(env_params.delta_yh, Sin(new_theta)),
                             FMul(env_params.delta_zh, Cos(new_theta)))
        y_hook == FAdd(new_y, delta_y_hook)
        z_hook == FAdd(new_z, delta_z_hook)
        y_hook_dot == FSub(new_y_dot, FMul(new_theta_dot, delta_z_hook))
        z_hook_dot == FAdd(new_z_dot, FMul(new_theta_dot, delta_y_hook))
        new_y_obj_dot == state.y_obj_dot
        new_z_obj_dot == FSub(state.z_obj_dot, FMul(env_params.g, sim_dt))
        new_y_obj == FAdd(state.y_obj, FMul(sim_dt, new_y_obj_dot))
        new_z_obj == FAdd(state.z_obj, FMul(sim_dt, new_z_obj_dot))
        phi_th == FNeg(Arctan2(FSub(y_hook, new_y_obj), FSub(z_hook, new_z_obj)))
        new_phi == angle_normalize(FSub(phi_th, new_theta))
        y_obj2hook_dot == FSub(new_y_obj_dot, y_hook_dot)
        z_obj2hook_dot == FSub(new_z_obj_dot, z_hook_dot)
        phi_th_dot == FAdd(FMul(y_obj2hook_dot, Cos(phi_th)),
                           FMul(z_obj2hook_dot, Sin(phi_th)))
        new_phi_dot == FSub(phi_th_dot, new_theta_dot)
        new_l_rope == FSqrt(FAdd(FMul(FSub(y_hook, new_y_obj), FSub(y_hook, new_y_obj)),
                                 FMul(FSub(z_hook, new_z_obj), FSub(z_hook, new_z_obj))))
    IN  [state EXCEPT
            !.y = new_y, !.z = new_z, !.theta = new_theta, !.phi = new_phi,
            !.y_dot = new_y_dot, !.z_dot = new_z_dot,
            !.theta_dot = new_theta_dot, !.phi_dot = new_phi_dot,
            !.y_hook = y_hook, !.z_hook = z_hook,
            !.y_hook_dot = y_hook_dot, !.z_hook_dot = z_hook_dot,
            !.y_obj = new_y_obj, !.z_obj = new_z_obj,
            !.y_obj_dot = new_y_obj_dot, !.z_obj_dot = new_z_obj_dot,
            !.l_rope = new_l_rope,
            !.f_rope = 0, !.f_rope_y = 0, !.f_rope_z = 0,
            !.last_thrust = env_action.thrust, !.last_tau = env_action.tau,
            !.time = state.time + 1,
            !.y_tar = TrajAt(state.y_traj, state.time),
            !.z_tar = TrajAt(state.z_traj, state.time),
            !.y_dot_tar = TrajAt(state.y_dot_traj, state.time),
            !.z_dot_tar = TrajAt(state.z_dot_traj, state.time)]

\* vectors of R^3 and quaternions (x, y, z, w) are sequences of numbers
VAdd(a, b) == [k \in 1..Len(a) |-> FAdd(a[k], b[k])]

VSub(a, b) == [k \in 1..Len(a) |-> FSub(a[k], b[k])]

VScale(c, a) == [k \in 1..Len(a) |-> FMul(c, a[k])]

\* a / c, componentwise; a division by zero gives no finite number
\* (NaN for 0/0, an infinity otherwise), which is NaN here
VDiv(a, c) == [k \in 1..Len(a) |-> FDiv(a[k], c)]

Dot(a, b) == FSum([k \in 1..Len(a) |-> FMul(a[k], b[k])])

\* jnp.cross
Cross(a, b) ==
    <<FSub(FMul(a[2], b[3]), FMul(a[3], b[2])),
      FSub(FMul(a[3], b[1]), FMul(a[1], b[3])),
      FSub(FMul(a[1], b[2]), FMul(a[2], b[1]))>>

\* jnp.linalg.norm
Norm(a) == FSqrt(Dot(a, a))

\* the product of two quaternions
QuatMul(p, q) ==
    LET pv == <<p[1], p[2], p[3]>>
        qv == <<q[1], q[2], q[3]>>
        v  == VAdd(VAdd(VScale(p[4], qv), VScale(q[4], pv)), Cross(pv, qv))
    IN  <<v[1], v[2], v[3], FSub(FMul(p[4], q[4]), Dot(pv, qv))>>

\* geom.rotate_with_quat(v, quat): the vector part of quat v quat^-1
rotate_with_quat(v, quat) ==
    LET qv == <<quat[1], quat[2], quat[3]>>
        t  == VScale(2 * SCALE, Cross(qv, v))
    IN  VAdd(VAdd(v, VScale(quat[4], t)), Cross(qv, t))

\* geom.integrate_quat(quat, omega, dt): one Euler step of
\* quat_dot = quat (omega, 0) / 2, then back to unit norm
integrate_quat(quat, omega, dt) ==
    LET quat_dot == VScale(Half, QuatMul(quat, <<omega[1], omega[2], omega[3], 0>>))
        stepped  == VAdd(quat, VScale(dt, quat_dot))
    IN  VDiv(stepped, Norm(stepped))

\* jnp.linalg.inv of a 3x3 matrix, by cofactors
Inv3(m) ==
    LET c(i, j, k, l) == FSub(FMul(m[i][k], m[j][l]), FMul(m[i][l], m[j][k]))
        det == FAdd(FSub(FMul(m[1][1], c(2, 3, 2, 3)), FMul(m[1][2], c(2, 3, 1, 3))),
                    FMul(m[1][3], c(2, 3, 1, 2)))
    IN  << <<FDiv(c(2, 3, 2, 3), det), FDiv(c(1, 3, 3, 2), det), FDiv(c(1, 2, 2, 3), det)>>,
           <<FDiv(c(2, 3, 3, 1), det), FDiv(c(1, 3, 1, 3), det), FDiv(c(1, 2, 3, 1), det)>>,
           <<FDiv(c(2, 3, 1, 2), det), FDiv(c(1, 3, 2, 1), det), FDiv(c(1, 2, 1, 2), det)>> >>

\* matrix @ vector
MatVec(m, v) == [k \in 1..Len(m) |-> Dot(m[k], v)]

\* loose_dynamics_3d(env_params, state, env_action, key, sim_dt)
loose_dynamics_3d(env_params, state, env_action, sim_dt) ==
    LET thrust_local == <<0, 0, env_action.thrust>>
        thrust_world == rotate_with_quat(thrust_local, state.quat)
        torque_world == rotate_with_quat(env_action.torque, state.quat)
        acc == VSub(VDiv(thrust_world, env_params.m), <<0, 0, env_params.g>>)
        alpha == MatVec(Inv3(env_params.I), torque_world)
        acc_obj == <<0, 0, FNeg(env_params.g)>>
        vel == VAdd(state.vel, VScale(sim_dt, acc))
        pos == VAdd(state.pos, VScale(sim_dt, vel))
        omega == VAdd(state.omega, VScale(sim_dt, alpha))
        quat == integrate_quat(state.quat, omega, sim_dt)
        vel_obj == VAdd(state.vel_obj, VScale(sim_dt, acc_obj))
        pos_obj == VAdd(state.pos_obj, VScale(sim_dt, vel_obj))
        hook_offset_world == rotate_with_quat(env_params.hook_offset, quat)
        pos_hook == VAdd(pos, hook_offset_world)
        vel_hook == VAdd(vel, Cross(omega, hook_offset_world))
        obj2quad == VSub(pos_obj, pos)
        l_rope == Norm(obj2quad)
        zeta == VDiv(obj2quad, l_rope)
        zeta_dot == VDiv(VSub(vel_obj, vel), l_rope)
    IN  [state EXCEPT
            !.pos = AsArray(pos), !.vel = AsArray(vel),
            !.omega = AsArray(omega), !.quat = AsArray(quat),
            !.pos_obj = AsArray(pos_obj), !.vel_obj = AsArray(vel_obj),
            !.pos_hook = AsArray(pos_hook), !.vel_hook = AsArray(vel_hook),
            !.l_rope = l_rope, !.zeta = AsArray(zeta), !.zeta_dot = AsArray(zeta_dot),
            !.f_rope = <<0, 0, 0>>, !.f_rope_norm = 0,
            !.last_thrust = env_action.thrust, !.last_torque = env_action.torque]

\* update_time(state)
update_time(state) ==
    LET time == state.time + 1
    IN  [state EXCEPT
            !.time = time,
            !.pos_tar = TrajAt(state.pos_traj, time),
            !.vel_tar = TrajAt(state.vel_traj, time)]

\* reference sequences whose entries all differ
Traj2D == [y |-> <<0, SCALE, 2 * SCALE, 3 * SCALE>>,
           z |-> <<Quarter, 2 * Quarter, 3 * Quarter, SCALE>>,
           y_dot |-> <<SCALE, SCALE + 1, SCALE + 2, SCALE + 3>>,
           z_dot |-> <<0 - SCALE, 0 - SCALE - 1, 0 - SCALE - 2, 0 - SCALE - 3>>]

Traj3D == [pos |-> [k \in 1..4 |-> <<k * SCALE, k * Half, k * Quarter>>],
           vel |-> [k \in 1..4 |-> <<k, 2 * k, 3 * k>>]]

\* planar parameters: the hook at the centre, and the hook at an offset
DynParams2D ==
    { [m |-> SCALE, I |-> SCALE, g |-> SCALE, delta_yh |-> h[1], delta_zh |-> h[2]] :
        h \in { <<0, 0>>, <<Quarter, 0 - Half>> } }

\* planar states as a reset leaves them: at rest, the payload below the
\* vehicle, the target at the reference's entry for its time
DynStates2D ==
    { [y |-> 0, z |-> 0, theta |-> th, phi |-> 0,
       y_dot |-> 0, z_dot |-> 0, theta_dot |-> 0, phi_dot |-> 0,
       y_hook |-> 0, z_hook |-> 0, y_hook_dot |-> 0, z_hook_dot |-> 0,
       y_obj |-> 0, z_obj |-> 0 - SCALE, y_obj_dot |-> 0, z_obj_dot |-> 0,
       l_rope |-> l, f_rope |-> Half, f_rope_y |-> 0, f_rope_z |-> Half,
       last_thrust |-> 0, last_tau |-> 0,
       time |-> t,
       y_traj |-> Traj2D.y, z_traj |-> Traj2D.z,
       y_dot_traj |-> Traj2D.y_dot, z_dot_traj |-> Traj2D.z_dot,
       y_tar |-> TrajAt(Traj2D.y, t), z_tar |-> TrajAt(Traj2D.z, t),
       y_dot_tar |-> TrajAt(Traj2D.y_dot, t), z_dot_tar |-> TrajAt(Traj2D.z_dot, t)] :
        th \in {0, PI \div 2}, l \in {SCALE, 2 * SCALE}, t \in {0, 1} }

DynActions2D == { [thrust |-> f, tau |-> q] : f \in {0, 2 * SCALE}, q \in {0, SCALE} }

\* the default hook offset (0.03, 0.02, -0.06) of EnvParams3D, and no offset
HookOffsets ==
    { <<(3 * SCALE) \div 100, (2 * SCALE) \div 100, 0 - ((6 * SCALE) \div 100)>>,
      <<0, 0, 0>> }

DynParams3D ==
    { [m |-> SCALE, g |-> SCALE, hook_offset |-> off,
       I |-> << <<Half, 0, 0>>, <<0, Half, 0>>, <<0, 0, SCALE>> >>] :
        off \in HookOffsets }

\* 3D states at rest or moving along x, upright or turned half a turn
\* about x, the payload one unit below the vehicle or at the vehicle
DynStates3D ==
    { [pos |-> <<0, 0, 0>>, vel |-> v, quat |-> q, omega |-> <<0, 0, 0>>,
       zeta |-> <<0, 0, 0 - SCALE>>, zeta_dot |-> <<0, 0, 0>>,
       pos_traj |-> Traj3D.pos, vel_traj |-> Traj3D.vel,
       pos_tar |-> TrajAt(Traj3D.pos, t), vel_tar |-> TrajAt(Traj3D.vel, t),
       pos_hook |-> <<0, 0, 0>>, vel_hook |-> <<0, 0, 0>>,
       pos_obj |-> po, vel_obj |-> v,
       f_rope_norm |-> Half, f_rope |-> <<0, 0, Half>>, l_rope |-> SCALE,
       last_thrust |-> 0, last_torque |-> <<0, 0, 0>>,
       time |-> t] :
        v \in { <<0, 0, 0>>, <<SCALE, 0, 0>> },
        q \in { <<0, 0, 0, SCALE>>, <<SCALE, 0, 0, 0>> },
        po \in { <<0, 0, 0 - SCALE>>, <<0, 0, 0>> },
        t \in {0, 1} }

DynActions3D ==
    { [thrust |-> f, torque |-> q] :
        f \in {0, 2 * SCALE}, q \in { <<0, 0, 0>>, <<0, 0, Half>> } }

SimDts == { Half }

\* a dynamics state as its environment holds it; before is the state the
\* last operation was applied to
DynInits ==
    { [kind |-> "2d", params |-> p, state |-> s, before |-> s, op |-> "reset", steps |-> 0] :
        p \in DynParams2D, s \in DynStates2D }
    \cup
    { [kind |-> "3d", params |-> p, state |-> s, before |-> s, op |-> "reset", steps |-> 0] :
        p \in DynParams3D, s \in DynStates3D }

InitDyn == env = [fails |-> FALSE] /\ InitRest /\ dyn \in DynInits

\* one call of the planar step
Step2D(env_action, sim_dt) ==
    /\ dyn.kind = "2d"
    /\ dyn.steps < MaxDynSteps
    /\ dyn' = [dyn EXCEPT !.state = loose_dynamics(dyn.params, dyn.state, env_action, sim_dt),
                          !.before = dyn.state, !.op = "loose_dynamics",
                          !.steps = dyn.steps + 1]
    /\ UNCHANGED mppi_vars

\* one call of the 3D physics step
Step3D(env_action, sim_dt) ==
    /\ dyn.kind = "3d"
    /\ dyn.steps < MaxDynSteps
    /\ dyn' = [dyn EXCEPT !.state = loose_dynamics_3d(dyn.params, dyn.state, env_action, sim_dt),
                          !.before = dyn.state, !.op = "loose_dynamics_3d",
                          !.steps = dyn.steps + 1]
    /\ UNCHANGED mppi_vars

\* one call of the 3D time update
UpdateTime ==
    /\ dyn.kind = "3d"
    /\ dyn.steps < MaxDynSteps
    /\ dyn' = [dyn EXCEPT !.state = update_time(dyn.state),
                          !.before = dyn.state, !.op = "update_time",
                          !.steps = dyn.steps + 1]
    /\ UNCHANGED mppi_vars

NextDyn ==
    \/ \E env_action \in DynActions2D, sim_dt \in SimDts : Step2D(env_action, sim_dt)
    \/ \E env_action \in DynActions3D, sim_dt \in SimDts : Step3D(env_action, sim_dt)
    \/ UpdateTime

SpecDyn == InitDyn /\ [][NextDyn]_vars

(* ------------------------------------------------------------------ *)
(* Properties                                                           *)
(* ------------------------------------------------------------------ *)

InTick == pc \in {"rollout", "returned"}

NoNaNIn(params) ==
    \A h \in 1..Len(params.a_mean), d \in 1..ADim :
        /\ ~IsNaN(params.a_mean[h][d])
        /\ \A e \in 1..ADim : ~IsNaN(params.a_cov[h][d][e])

Finite(seq) == \A i \in 1..Len(seq) : ~IsNaN(seq[i])

AllEqual(seq) == \A i, j \in 1..Len(seq) : seq[i] = seq[j]

\* C1: the importance weights of a batch of finite costs are non-negative
\* and sum to 1 (each weight is rounded down, so the sum is short of 1.0 by
\* less than one unit of resolution per sample), and when all costs are
\* equal every weight is exactly 1/N.
C1_WeightsNormalised ==
    (pc = "returned" /\ Finite(out.cost)) =>
        /\ Len(out.weight) = ctrl.N
        /\ \A i \in 1..ctrl.N : out.weight[i] >= 0 /\ out.weight[i] <= SCALE
        /\ FSum(out.weight) <= SCALE
        /\ FSum(out.weight) > SCALE - ctrl.N
        /\ AllEqual(out.cost) =>
               \A i \in 1..ctrl.N : out.weight[i] = FDiv(SCALE, ctrl.N * SCALE)

\* a batch of four samples with finite costs that are not all equal
C1_Witness ==
    /\ pc = "returned"
    /\ ctrl.N = 4
    /\ Finite(out.cost)
    /\ ~AllEqual(out.cost)
    /\ ~AllEqual(out.weight)

\* a batch of four samples of equal cost: every weight is 0.25
C1_WitnessEqual ==
    /\ pc = "returned"
    /\ ctrl.N = 4
    /\ ctrl.H >= 2
    /\ AllEqual(out.cost)
    /\ out.weight = <<Quarter, Quarter, Quarter, Quarter>>

\* sample i's done flag became true at horizon step k
BecameDone(i, k) == donelog[k][i] /\ (k = 1 \/ ~donelog[k - 1][i])

\* C2: during the rollout the carried done flag is the environment's done
\* or-ed with the flag carried so far, hence monotonic; a sample whose flag
\* became true at step k reports at every later step the reward it
\* reported at step k; a sample not yet done reports the reward the
\* environment computed at that step.
C2_DoneFreezesReward ==
    InTick =>
        /\ Len(rewards) = hstep /\ Len(donelog) = hstep
        /\ \A i \in 1..ctrl.N :
              /\ \A k \in 1..hstep :
                    donelog[k][i] = (envlog[k][i].done \/ (k > 1 /\ donelog[k - 1][i]))
              /\ \A k \in 1..hstep, h \in 1..hstep :
                    (k < h /\ donelog[k][i]) => donelog[h][i]
              /\ \A k \in 1..hstep, h \in 1..hstep :
                    (k < h /\ BecameDone(i, k)) => rewards[h][i] = rewards[k][i]
              /\ \A h \in 1..hstep :
                    (h = 1 \/ ~donelog[h - 1][i]) => rewards[h][i] = envlog[h][i].reward

\* one sample terminated at step 2 of 3 and its frozen reward at step 3
\* differs from what the environment computed there, while another sample
\* of the batch never terminated
C2_Witness ==
    /\ pc = "returned"
    /\ ctrl.H = 3
    /\ \E i, j \in 1..ctrl.N :
          /\ BecameDone(i, 2)
          /\ envlog[3][i].reward # rewards[3][i]
          /\ ~envlog[3][i].done
          /\ ~donelog[3][j]
          /\ rewards[3][j] # rewards[2][j]

\* the batch as drawn, before clipping
RawBatch == RawSamples(ActKeys(inp.rng_act, ctrl.N), cp.a_mean, cp.a_cov)

\* C3: every component of the batch handed to the rollout and to the
\* update lies in [-1, 1]; a draw beyond a bound is replaced by that bound
\* and a draw within the bounds is kept.
C3_SamplesClipped ==
    InTick =>
        LET raw == RawBatch
        IN  /\ Len(a_sampled) = ctrl.N
            /\ \A i \in 1..ctrl.N :
                  /\ Len(a_sampled[i]) = ctrl.H
                  /\ \A h \in 1..ctrl.H, d \in 1..ADim :
                        LET x == raw[i][h][d]
                            y == a_sampled[i][h][d]
                        IN  /\ y >= 0 - SCALE /\ y <= SCALE
                            /\ x > SCALE => y = SCALE
                            /\ x < 0 - SCALE => y = 0 - SCALE
                            /\ (x >= 0 - SCALE /\ x <= SCALE) => y = x

\* what does hold: a draw that is a number is saturated into [-1, 1],
\* and a NaN draw stays NaN
C3_NumbersClipped ==
    InTick =>
        LET raw == RawBatch
        IN  \A i \in 1..ctrl.N, h \in 1..ctrl.H, d \in 1..ADim :
                LET x == raw[i][h][d]
                    y == a_sampled[i][h][d]
                IN  /\ IsNaN(x) <=> IsNaN(y)
                    /\ ~IsNaN(x) =>
                          /\ y >= 0 - SCALE /\ y <= SCALE
                          /\ x > SCALE => y = SCALE
                          /\ x < 0 - SCALE => y = 0 - SCALE
                          /\ (x >= 0 - SCALE /\ x <= SCALE) => y = x

\* one draw above 1.0 and one below -1.0 in the same batch, both saturated
C3_Witness ==
    /\ InTick
    /\ LET raw == RawBatch
       IN  /\ \E i \in 1..ctrl.N, h \in 1..ctrl.H, d \in 1..ADim :
                 raw[i][h][d] > SCALE /\ a_sampled[i][h][d] = SCALE
           /\ \E i \in 1..ctrl.N, h \in 1..ctrl.H, d \in 1..ADim :
                 raw[i][h][d] < 0 - SCALE /\ a_sampled[i][h][d] = 0 - SCALE
           /\ \E i \in 1..ctrl.N, h \in 1..ctrl.H, d \in 1..ADim :
                 FAbs(raw[i][h][d]) < SCALE /\ raw[i][h][d] # cp.a_mean[h][d]

\* x is seq with its first step dropped and its last step repeated
IsShiftOf(x, seq) ==
    /\ Len(x) = Len(seq)
    /\ \A h \in 1..Len(seq) : x[h] = seq[IF h < Len(seq) THEN h + 1 ELSE Len(seq)]

\* C4: the shift maps the mean sequence [m0, ..., m(H-1)] to
\* [m1, ..., m(H-1), m(H-1)] and the covariance sequence likewise, and
\* the distribution keeps its length H over the ticks.
C4_Shift ==
    /\ InTick =>
          /\ Len(cp.a_mean) = ctrl.H /\ Len(cp.a_cov) = ctrl.H
          /\ IsShiftOf(cp.a_mean, inp.control_params.a_mean)
          /\ IsShiftOf(cp.a_cov, inp.control_params.a_cov)
          /\ ctrl.H = 1 => /\ cp.a_mean = inp.control_params.a_mean
                           /\ cp.a_cov = inp.control_params.a_cov
    /\ pc = "returned" =>
          /\ Len(out.control_params.a_mean) = ctrl.H
          /\ Len(out.control_params.a_cov) = ctrl.H

\* the second tick of a controller of horizon 3: the distribution it is
\* given is the one the first tick returned, and its steps differ
C4_Witness ==
    /\ pc = "returned"
    /\ ctrl.H = 3
    /\ ticks = 1
    /\ inp.control_params = last.out.control_params
    /\ NoNaNIn(inp.control_params)
    /\ inp.control_params.a_mean[1] # inp.control_params.a_mean[2]
    /\ inp.control_params.a_cov[1] # inp.control_params.a_cov[2]

\* the weighted batch mean sum_i weight_i * sample_i of step h, component d
MeanBatch(h, d) ==
    FSum([i \in 1..ctrl.N |-> FMul(out.weight[i], a_sampled[i][h][d])])

\* gamma * batch + (1 - gamma) * old
Blend(gamma, batch, old) == FAdd(FMul(batch, gamma), FMul(old, FSub(SCALE, gamma)))

C5_WitnessScenario ==
    /\ pc = "returned"
    /\ ctrl.N = 1 /\ ctrl.H = 1
    /\ cp.a_mean[1] = <<Half, 0>>
    /\ cp.a_cov[1] = <<<<0, 0>>, <<0, 0>>>>
    /\ cp.gamma_mean = Half
    /\ out.weight = <<SCALE>>

\* in that scenario the factorisation of the zero covariance fails and the
\* one sample is NaN, not the mean
C5_ScenarioSampleIsNaN ==
    C5_WitnessScenario => \A d \in 1..ADim : IsNaN(a_sampled[1][1][d])

\* sum_i weight_i * (sample_i - centre)(sample_i - centre)^T, entry (d, e)
CovAbout(centre, h, d, e) ==
    FSum([i \in 1..ctrl.N |->
             FMul(out.weight[i],
                  FMul(FSub(a_sampled[i][h][d], centre[h][d]),
                       FSub(a_sampled[i][h][e], centre[h][e])))])

BatchMeans == [h \in 1..ctrl.H |-> [d \in 1..ADim |-> MeanBatch(h, d)]]

\* C6: the covariance a tick returns is, at every horizon step,
\* gamma_sigma * covBatch + (1 - gamma_sigma) * cov_old, with cov_old the
\* covariance after the shift and covBatch the weighted covariance of the
\* batch centred on the weighted batch mean.
C6_CovCentredOnBatchMean ==
    pc = "returned" =>
        \A h \in 1..ctrl.H, d \in 1..ADim, e \in 1..ADim :
            out.control_params.a_cov[h][d][e] =
                Blend(cp.gamma_sigma, CovAbout(BatchMeans, h, d, e), cp.a_cov[h][d][e])

\* what the code computes instead: the same blend with the batch
\* covariance centred on the mean the tick returns
C6_CovCentredOnReturnedMean ==
    pc = "returned" =>
        \A h \in 1..ctrl.H, d \in 1..ADim, e \in 1..ADim :
            out.control_params.a_cov[h][d][e] =
                Blend(cp.gamma_sigma, CovAbout(out.control_params.a_mean, h, d, e),
                      cp.a_cov[h][d][e])

\* C7: within one tick the keys of the draws of two different
\* (sample, horizon step) pairs are different.
C7_DistinctKeys ==
    InTick =>
        \A i, j \in 1..ctrl.N, h, k \in 1..ctrl.H :
            (i # j \/ h # k) => draw_key[i][h] # draw_key[j][k]

\* what the code does provide: the keys of two different samples differ,
\* and the keys are a fixed function of the tick's input key
C7_DistinctAcrossSamples ==
    InTick =>
        /\ \A i, j \in 1..ctrl.N, h, k \in 1..ctrl.H :
              i # j => draw_key[i][h] # draw_key[j][k]
        /\ \A i \in 1..ctrl.N, h \in 1..ctrl.H :
              draw_key[i][h] = Split(Split(inp.rng_act, 2)[1], ctrl.N)[i]

NaNCosts == { i \in 1..Len(out.cost) : IsNaN(out.cost[i]) }

\* C9: when the cost of one sample is NaN and the costs of the others are
\* finite, that sample gets weight 0, the weights of the others are finite
\* and sum to 1, and the returned mean, covariance and action hold no NaN.
C9_NaNCostExcluded ==
    (pc = "returned" /\ Cardinality(NaNCosts) = 1 /\ ctrl.N >= 2) =>
        /\ \A i \in NaNCosts : out.weight[i] = 0
        /\ \A i \in 1..ctrl.N : ~IsNaN(out.weight[i])
        /\ FSum(out.weight) <= SCALE /\ FSum(out.weight) > SCALE - ctrl.N
        /\ NoNaNIn(out.control_params)
        /\ \A d \in 1..ADim : ~IsNaN(out.u[d])

\* what the code does then: every weight and everything returned is NaN
C9_NaNCostPoisons ==
    (pc = "returned" /\ NaNCosts # {}) =>
        /\ \A i \in 1..ctrl.N : IsNaN(out.weight[i])
        /\ \A d \in 1..ADim : IsNaN(out.u[d])

\* C10: no controller exists whose sample count or horizon is not
\* positive, and no tick fails on the controller's configuration.
C10_FailsAtConstruction ==
    /\ pc # "new" => (ctrl.N >= 1 /\ ctrl.H >= 1)
    /\ pc # "tick_error"

\* a 2x2 matrix of numbers
Numeric(c) == \A d, e \in 1..ADim : ~IsNaN(c[d][e])

Symmetric(c) == \A d, e \in 1..ADim : c[d][e] = c[e][d]

\* positive semi-definite: no negative diagonal entry and no negative
\* determinant
PSD(c) ==
    /\ c[1][1] >= 0
    /\ c[2][2] >= 0
    /\ c[1][1] * c[2][2] - c[1][2] * c[2][1] >= 0

\* C13: from a distribution of symmetric positive semi-definite covariances,
\* with gamma_sigma in [0, 1], every covariance handed to the sampler in
\* any tick is a symmetric positive semi-definite matrix.
C13_CovSymmetricPSD ==
    InTick => \A h \in 1..ctrl.H :
        Numeric(cp.a_cov[h]) /\ Symmetric(cp.a_cov[h]) /\ PSD(cp.a_cov[h])

\* what does hold: a covariance of numbers handed to the sampler is
\* symmetric and positive semi-definite, and one with a NaN is NaN throughout
C13_NumericCovSymmetricPSD ==
    InTick => \A h \in 1..ctrl.H :
        IF Numeric(cp.a_cov[h])
        THEN Symmetric(cp.a_cov[h]) /\ PSD(cp.a_cov[h])
        ELSE \A d, e \in 1..ADim : IsNaN(cp.a_cov[h][d][e])

\* a second tick whose covariances were all updated by the first and are
\* numbers
C13_WitnessNumeric ==
    /\ InTick
    /\ ticks = 1 /\ last # None
    /\ ctrl.N >= 2
    /\ \A h \in 1..ctrl.H : Numeric(cp.a_cov[h]) /\ cp.a_cov[h][1][2] # 0

\* a second tick that hands a NaN covariance to the sampler, the first
\* having started from covariances of numbers
C13_WitnessNaN ==
    /\ InTick
    /\ ticks = 1 /\ last # None
    /\ NoNaNIn(last.inp.control_params)
    /\ \E h \in 1..ctrl.H : ~Numeric(cp.a_cov[h])

(* Loose-rope dynamics *)

AfterPlanarStep == dyn # None /\ dyn.op = "loose_dynamics"

After3DStep == dyn # None /\ dyn.op = "loose_dynamics_3d"

AfterUpdateTime == dyn # None /\ dyn.op = "update_time"

\* the planar hook: the vehicle position plus the hook offset turned by theta
HookPos2D(params, state) ==
    <<FAdd(state.y, FSub(FMul(params.delta_yh, Cos(state.theta)),
                         FMul(params.delta_zh, Sin(state.theta)))),
      FAdd(state.z, FAdd(FMul(params.delta_yh, Sin(state.theta)),
                         FMul(params.delta_zh, Cos(state.theta))))>>

\* the 3D hook: the vehicle position plus the hook offset turned by quat
HookPos3D(params, state) == VAdd(state.pos, rotate_with_quat(params.hook_offset, state.quat))

\* the planar step: rope length from hook to payload, rope force zero
C11_PlanarRope ==
    AfterPlanarStep =>
        /\ dyn.state.l_rope =
              Norm(VSub(HookPos2D(dyn.params, dyn.state), <<dyn.state.y_obj, dyn.state.z_obj>>))
        /\ dyn.state.f_rope = 0 /\ dyn.state.f_rope_y = 0 /\ dyn.state.f_rope_z = 0

\* the 3D step as the statement has it: rope length from hook to payload
C11_3DRopeFromHook ==
    After3DStep =>
        /\ dyn.state.pos_hook = HookPos3D(dyn.params, dyn.state)
        /\ dyn.state.l_rope = Norm(VSub(dyn.state.pos_obj, dyn.state.pos_hook))
        /\ dyn.state.f_rope = <<0, 0, 0>> /\ dyn.state.f_rope_norm = 0

\* C11: after every step of the loose-rope dynamics, planar and 3D, the
\* stored rope length is the distance between the hook position (vehicle
\* position plus rotated hook offset) and the payload position of the new
\* state, whatever the rope length was before, and the stored rope force
\* and its components are zero.
C11_RopeLengthFromHook == C11_PlanarRope /\ C11_3DRopeFromHook

\* what the 3D step stores: the distance from the vehicle position, not
\* from the hook, to the payload; the hook position and the zero force are
\* as stated
C11_3DRopeFromVehicle ==
    After3DStep =>
        /\ dyn.state.pos_hook = HookPos3D(dyn.params, dyn.state)
        /\ dyn.state.l_rope = Norm(VSub(dyn.state.pos_obj, dyn.state.pos))
        /\ dyn.state.f_rope = <<0, 0, 0>> /\ dyn.state.f_rope_norm = 0

\* a planar step from a state whose stored rope length was not the distance
C11_WitnessPlanar ==
    /\ AfterPlanarStep
    /\ dyn.params.delta_yh # 0
    /\ dyn.state.theta # 0
    /\ dyn.before.l_rope # dyn.state.l_rope
    /\ dyn.before.f_rope # 0

\* a 3D step with the default hook offset
C11_Witness3D ==
    /\ After3DStep
    /\ dyn.params.hook_offset # <<0, 0, 0>>
    /\ ~IsNaN(dyn.state.l_rope)
    /\ dyn.state.l_rope # Norm(VSub(dyn.state.pos_obj, dyn.state.pos_hook))

\* the reference sequences are read, not written
SameTraj2D ==
    /\ dyn.state.y_traj = dyn.before.y_traj
    /\ dyn.state.z_traj = dyn.before.z_traj
    /\ dyn.state.y_dot_traj = dyn.before.y_dot_traj
    /\ dyn.state.z_dot_traj = dyn.before.z_dot_traj

SameTraj3D ==
    /\ dyn.state.pos_traj = dyn.before.pos_traj
    /\ dyn.state.vel_traj = dyn.before.vel_traj

\* the planar target is the reference's entry at index t
PlanarTargetAt(t) ==
    /\ dyn.state.y_tar = TrajAt(dyn.state.y_traj, t)
    /\ dyn.state.z_tar = TrajAt(dyn.state.z_traj, t)
    /\ dyn.state.y_dot_tar = TrajAt(dyn.state.y_dot_traj, t)
    /\ dyn.state.z_dot_tar = TrajAt(dyn.state.z_dot_traj, t)

\* the planar step as the statement has it: target at the new index
C12_PlanarTargetAtNewIndex ==
    AfterPlanarStep =>
        /\ dyn.state.time = dyn.before.time + 1
        /\ PlanarTargetAt(dyn.state.time)
        /\ SameTraj2D

\* the 3D time update: time advances by one and the target is the
\* reference's entry at the new index
C12_UpdateTime ==
    AfterUpdateTime =>
        /\ dyn.state.time = dyn.before.time + 1
        /\ dyn.state.pos_tar = TrajAt(dyn.state.pos_traj, dyn.state.time)
        /\ dyn.state.vel_tar = TrajAt(dyn.state.vel_traj, dyn.state.time)
        /\ SameTraj3D

\* the 3D physics step leaves time, target and reference alone
C12_3DStepKeepsTime ==
    After3DStep =>
        /\ dyn.state.time = dyn.before.time
        /\ dyn.state.pos_tar = dyn.before.pos_tar
        /\ dyn.state.vel_tar = dyn.before.vel_tar
        /\ SameTraj3D

\* C12: after a dynamics step that advances time (the planar step, the 3D
\* time update) the time index is the previous one plus 1 and the stored
\* target position and velocity are the reference's entries at the new
\* index; the reference is not modified; the 3D physics step alone leaves
\* time and target unchanged.
C12_TargetAtNewIndex ==
    C12_PlanarTargetAtNewIndex /\ C12_UpdateTime /\ C12_3DStepKeepsTime

\* what the planar step stores: the reference's entries at the index
\* before the increment
C12_PlanarTargetAtOldIndex ==
    AfterPlanarStep =>
        /\ dyn.state.time = dyn.before.time + 1
        /\ PlanarTargetAt(dyn.before.time)
        /\ SameTraj2D

\* a planar step and a 3D time update away from the end of the reference
C12_WitnessPlanar ==
    /\ AfterPlanarStep
    /\ dyn.state.time + 1 <= Len(dyn.state.y_traj)
    /\ dyn.state.y_tar # TrajAt(dyn.state.y_traj, dyn.state.time)

C12_WitnessUpdateTime ==
    /\ AfterUpdateTime
    /\ dyn.state.time + 1 <= Len(dyn.state.pos_traj)
    /\ dyn.state.pos_tar # dyn.before.pos_tar

HasNaN(v) == \E k \in 1..Len(v) : IsNaN(v[k])

\* C14: in the 3D loose-rope step a rope length of zero is raised to a
\* positive minimum before the rope direction zeta and its rate zeta_dot
\* are divided by it, so the new state holds a positive rope length and no
\* NaN.
C14_RopeLengthFloored ==
    After3DStep =>
        /\ dyn.state.l_rope > 0
        /\ ~HasNaN(dyn.state.zeta)
        /\ ~HasNaN(dyn.state.zeta_dot)

\* what the 3D step does: the division is by the rope length as computed,
\* and zeta and zeta_dot are not numbers exactly when that length is zero
C14_ZeroLengthGivesNaN ==
    After3DStep =>
        /\ dyn.state.l_rope = Norm(VSub(dyn.state.pos_obj, dyn.state.pos))
        /\ (dyn.state.l_rope = 0) <=> HasNaN(dyn.state.zeta)
        /\ (dyn.state.l_rope = 0) <=> HasNaN(dyn.state.zeta_dot)

\* a 3D step that ends with the payload at the vehicle position
C14_Witness ==
    /\ After3DStep
    /\ dyn.state.pos_obj = dyn.state.pos
    /\ dyn.state.l_rope = 0
    /\ HasNaN(dyn.state.zeta)

====
